---- MODULE Spec2Model ----
(***************************************************************************)
(* Model of train_sleep_model.py: the synthetic sleep-sample generator,    *)
(* the stratified train/test split, the metadata composer and the main     *)
(* pipeline.                                                               *)
(*                                                                         *)
(* Continuous quantities are fixed-point integers in hundredths of their   *)
(* unit (heartRate 65.0 bpm is 6500, temperature 36.8 C is 3680,           *)
(* timeOfNight 1.0 h is 100, random() 0.3 is 30).  Every literal of the    *)
(* generator in the source is a multiple of 0.01, so the scaling is exact. *)
(***************************************************************************)
EXTENDS Integers, Sequences, FiniteSets

VARIABLES
    gpc,        \* generate_synthetic_sleep_data: "idle" | "loop" | "returned"
    n_samples,  \* its n_samples argument
    i,          \* its loop index (number of iterations completed)
    data,       \* its list `data`
    rng,        \* state of the process-wide numpy random stream
    results,    \* DataFrames returned by the calls made so far
    pre,        \* state of the stream right before each of those calls
    df,         \* create_ml_training_data: its argument, a sequence of rows (RangeIndex)
    spc,        \* create_ml_training_data: "ready" | "returned" | "raised"
    train_df,   \* its first result: index label -> row, or None
    test_df,    \* its second result
    evaluation_metrics,  \* create_model_metadata: its argument
    mpc,        \* create_model_metadata: "ready" | "returned" | "raised"
    metadata_out,        \* its result, or None
    pc,         \* main: the step about to run, or "done" / "error"
    failed,     \* main: the step that raised, or NoStep
    steps,      \* main: the steps run so far, in order
    sleep_data, \* main: stage -> number of generated rows, or None
    train_data, \* main: stage -> number of rows in the train table, or None
    test_data,  \* main
    evaluation, \* main: the trainer's evaluation_metrics mapping, or None
    metadata,   \* main: the composed metadata, or None
    model_file, \* whether SleepStagePredictor.mlmodel has been written
    metadata_file  \* model_metadata.json: "absent" | "partial" | "complete"

gvars == <<gpc, n_samples, i, data, rng, results, pre>>
svars == <<df, spc, train_df, test_df>>
cvars == <<evaluation_metrics, mpc, metadata_out>>
pvars == <<pc, failed, steps, sleep_data, train_data, test_data, evaluation, metadata,
           model_file, metadata_file>>
vars == <<gvars, svars, cvars, pvars>>

\* Python's None where a table, mapping or record is expected
None == <<>>

\* no step of main has raised
NoStep == "none"

(***************************************************************************)
(* Bounds                                                                  *)
(***************************************************************************)
MaxSamples == 1     \* largest n_samples when the draws are unconstrained
MaxSamplesDet == 2  \* largest n_samples when the draws come from the stream
MaxCalls == 2       \* calls of the generator in one behaviour
ZMax == 5           \* largest |z| of a standard-normal draw, largest standard-exponential draw
RngMod == 8         \* number of states of the modelled random stream
MaxRows == 6        \* largest dataset given to create_ml_training_data on its own
MaxRare == 2        \* largest size of a class other than the bulk class in main's dataset

(***************************************************************************)
(* Helpers                                                                 *)
(***************************************************************************)
Max(a, b) == IF a >= b THEN a ELSE b
Min(a, b) == IF a <= b THEN a ELSE b

StageSet == 0..3   \* Awake=0, Light=1, Deep=2, REM=3

Fields == {"heartRate", "hrv", "movement", "bloodOxygen", "temperature", "breathingRate"}

\* One draw slot per call of np.random.normal / np.random.exponential in an
\* iteration: the base draw and the jitter draw of each continuous field.
Slots == {<<f, k>> : f \in Fields, k \in {"base", "jitter"}}

(***************************************************************************)
(* The phase buckets, lines 29-63                                          *)
(***************************************************************************)
\* fault variant: the thresholds 1, 3 and 5 put in the earlier bucket
BucketInclusive(t) ==
    IF t <= 100 THEN 1
    ELSE IF t <= 300 THEN 2
    ELSE IF t <= 500 THEN 3
    ELSE 4

\* the if / elif / elif / else chain on time_of_night
Bucket(t) ==
    IF t < 100 THEN 1
    ELSE IF t < 300 THEN 2
    ELSE IF t < 500 THEN 3
    ELSE 4

\* the list given to np.random.choice in each branch (every p is positive)
StageChoices(b) ==
    CASE b = 1 -> <<0, 1>>
      [] b = 2 -> <<1, 2>>
      [] b = 3 -> <<1, 3>>
      [] b = 4 -> <<0, 1, 2, 3>>

\* the p given to np.random.choice in each branch, in hundredths
StageProbs(b) ==
    CASE b = 1 -> <<30, 70>>
      [] b = 2 -> <<40, 60>>
      [] b = 3 -> <<30, 70>>
      [] b = 4 -> <<20, 40, 20, 20>>

\* np.random.choice(a, p=p): the first position whose cumulative probability
\* exceeds the uniform draw c in [0, 1)
RECURSIVE Cdf(_, _)
Cdf(p, k) == IF k = 0 THEN 0 ELSE Cdf(p, k - 1) + p[k]

Choice(a, p, c) ==
    LET idx == CHOOSE k \in 1..Len(a) :
                   /\ c < Cdf(p, k)
                   /\ \A j \in 1..(k - 1) : c >= Cdf(p, j)
    IN  a[idx]

\* loc of np.random.normal for the base value of each field, per branch
Mu(b, f) ==
    CASE f = "heartRate"     -> (CASE b = 1 -> 6500 [] b = 2 -> 5500 [] b = 3 -> 6000 [] b = 4 -> 6200)
      [] f = "hrv"           -> (CASE b = 1 -> 3500 [] b = 2 -> 4500 [] b = 3 -> 4000 [] b = 4 -> 3800)
      [] f = "movement"      -> 0
      [] f = "bloodOxygen"   -> (CASE b = 1 -> 9600 [] b = 2 -> 9700 [] b = 3 -> 9650 [] b = 4 -> 9680)
      [] f = "temperature"   -> (CASE b = 1 -> 3680 [] b = 2 -> 3650 [] b = 3 -> 3670 [] b = 4 -> 3660)
      [] f = "breathingRate" -> (CASE b = 1 -> 1400 [] b = 2 -> 1200 [] b = 3 -> 1600 [] b = 4 -> 1500)

\* scale of np.random.normal (of np.random.exponential for movement), per branch
Sigma(b, f) ==
    CASE f = "heartRate"     -> (CASE b = 1 -> 800 [] b = 2 -> 600 [] b = 3 -> 1000 [] b = 4 -> 900)
      [] f = "hrv"           -> (CASE b = 1 -> 1000 [] b = 2 -> 800 [] b = 3 -> 1200 [] b = 4 -> 1100)
      [] f = "movement"      -> (CASE b = 1 -> 30 [] b = 2 -> 10 [] b = 3 -> 20 [] b = 4 -> 25)
      [] f = "bloodOxygen"   -> (CASE b = 1 -> 150 [] b = 2 -> 100 [] b = 3 -> 120 [] b = 4 -> 130)
      [] f = "temperature"   -> (CASE b = 1 -> 30 [] b = 2 -> 20 [] b = 3 -> 40 [] b = 4 -> 30)
      [] f = "breathingRate" -> (CASE b = 1 -> 200 [] b = 2 -> 150 [] b = 3 -> 300 [] b = 4 -> 250)

\* scale of the np.random.normal(0, s) jitter of lines 66-71
JitterSigma(f) ==
    CASE f = "heartRate"     -> 300
      [] f = "hrv"           -> 500
      [] f = "movement"      -> 10
      [] f = "bloodOxygen"   -> 50
      [] f = "temperature"   -> 10
      [] f = "breathingRate" -> 100

\* the base value drawn in the branch: mu + sigma * z (z >= 0 for the exponential)
BaseValue(b, f, z) == Mu(b, f) + Sigma(b, f) * z

(***************************************************************************)
(* Noise and clamping, lines 66-71                                         *)
(***************************************************************************)
\* movement = min(1.0, movement + noise): the line has no max(0, ...)
ClampMovement(x) == Min(100, x)

Clamp(f, x) ==
    CASE f = "heartRate"     -> Max(4000, Min(10000, x))
      [] f = "hrv"           -> Max(1000, Min(8000, x))
      [] f = "movement"      -> ClampMovement(x)
      [] f = "bloodOxygen"   -> Max(9000, Min(10000, x))
      [] f = "temperature"   -> Max(3550, Min(3750, x))
      [] f = "breathingRate" -> Max(800, Min(2500, x))

FieldValue(b, f, z) ==
    Clamp(f, BaseValue(b, f, z[<<f, "base">>]) + JitterSigma(f) * z[<<f, "jitter">>])

(***************************************************************************)
(* previous_stage, line 74                                                 *)
(***************************************************************************)
\* fault variant: the predecessor taken without % 4
PreviousStageNoMod(stage, r) == IF r > 30 THEN stage - 1 ELSE stage

PreviousStage(stage, r) == IF r > 30 THEN (stage - 1) % 4 ELSE stage

(***************************************************************************)
(* One iteration of the loop, lines 26-86.  d holds the iteration's draws: *)
(* u = np.random.uniform(0, 8), pick = the position np.random.choice       *)
(* selects, z = the normal / exponential draws, r = np.random.random().    *)
(***************************************************************************)
Sample(d) ==
    LET time_of_night == d.u
        b == Bucket(time_of_night)
        stage == Choice(StageChoices(b), StageProbs(b), d.pick)
    IN  [heartRate     |-> FieldValue(b, "heartRate", d.z),
         hrv           |-> FieldValue(b, "hrv", d.z),
         movement      |-> FieldValue(b, "movement", d.z),
         bloodOxygen   |-> FieldValue(b, "bloodOxygen", d.z),
         temperature   |-> FieldValue(b, "temperature", d.z),
         breathingRate |-> FieldValue(b, "breathingRate", d.z),
         timeOfNight   |-> time_of_night,
         previousStage |-> PreviousStage(stage, d.r),
         stage         |-> stage]

(***************************************************************************)
(* Draws.  Unconstrained draws are taken from small sets that reach every  *)
(* branch, both sides of every threshold and both sides of every clamp.    *)
(***************************************************************************)
\* np.random.uniform(0, 8) is in [0, 8): the bucket thresholds and their neighbours
TimeDraws == {0, 99, 100, 299, 300, 499, 500, 799}

\* np.random.random() is in [0, 1): both sides of the 0.3 threshold
RDraws == {30, 31}

\* the uniform draw behind np.random.choice, in [0, 1): one value inside
\* every probability interval of every branch
PickDraws == {0, 35, 65, 85}

\* the typical draw of every slot: z = 0 for a normal, 1 for the exponential
TypicalZ == [s \in Slots |-> IF s = <<"movement", "base">> THEN 1 ELSE 0]

\* extreme values of a slot: a normal draw has either sign, an exponential draw is >= 0
SlotDraws(s) == IF s = <<"movement", "base">> THEN {0, ZMax} ELSE {-ZMax, ZMax}

\* the typical draws with one slot at an extreme value
ExtremeZ ==
    UNION {{[TypicalZ EXCEPT ![s] = v] : v \in SlotDraws(s)} : s \in Slots}

\* one time of night inside each bucket
BucketTimes == {99, 299, 499, 799}

\* Every combination of time, choice and random() with typical field draws,
\* and every single extreme field draw in every bucket.  Each field is
\* computed from the bucket and its own two slots only.
FreeDraws ==
    {[u |-> u, pick |-> c, r |-> r, z |-> TypicalZ] :
        u \in TimeDraws, c \in PickDraws, r \in RDraws}
    \cup
    {[u |-> u, pick |-> 35, r |-> 31, z |-> z] : u \in BucketTimes, z \in ExtremeZ}

(***************************************************************************)
(* The process-wide random stream.  numpy's generator is a deterministic   *)
(* function of its state; it is modelled by a counter of RngMod states,    *)
(* each draw advancing it by one step and reading the new state.           *)
(***************************************************************************)
Advance(x) == (x + 1) % RngMod

RECURSIVE AdvanceN(_, _)
AdvanceN(x, k) == IF k = 0 THEN x ELSE AdvanceN(Advance(x), k - 1)

\* fault variant: the call does not reseed the stream
NpRandomSeedKeep(cur, s) == cur

\* np.random.seed(s), line 20: the state becomes a function of s alone
NpRandomSeed(cur, s) == s % RngMod

\* the order of the np.random calls within one iteration: uniform, choice,
\* the six base draws, the six jitter draws, random
SlotOrder ==
    <<<<"heartRate", "base">>, <<"hrv", "base">>, <<"movement", "base">>,
      <<"bloodOxygen", "base">>, <<"temperature", "base">>, <<"breathingRate", "base">>,
      <<"heartRate", "jitter">>, <<"hrv", "jitter">>, <<"movement", "jitter">>,
      <<"bloodOxygen", "jitter">>, <<"temperature", "jitter">>, <<"breathingRate", "jitter">>>>

DrawsPerIteration == Len(SlotOrder) + 3

SlotPosition(s) == 2 + (CHOOSE k \in 1..Len(SlotOrder) : SlotOrder[k] = s)

\* the draws of one iteration that starts with the stream in state x
StreamDraws(x) ==
    [u    |-> (AdvanceN(x, 1) * 800) \div RngMod,
     pick |-> (AdvanceN(x, 2) * 100) \div RngMod,
     r    |-> (AdvanceN(x, DrawsPerIteration) * 100) \div RngMod,
     z    |-> [s \in Slots |->
                 IF s = <<"movement", "base">>
                 THEN AdvanceN(x, SlotPosition(s)) % (ZMax + 1)
                 ELSE (AdvanceN(x, SlotPosition(s)) % (2 * ZMax + 1)) - ZMax]]

(***************************************************************************)
(* generate_synthetic_sleep_data, lines 15-88                              *)
(***************************************************************************)
\* lines 20-22: the call seeds the stream and starts with an empty list
GenCall(n, calls) ==
    /\ gpc \in {"idle", "returned"}
    /\ Len(results) < calls
    /\ gpc' = "loop"
    /\ n_samples' = n
    /\ i' = 0
    /\ data' = <<>>
    /\ rng' = NpRandomSeed(rng, 42)
    /\ pre' = Append(pre, rng)
    /\ UNCHANGED <<results, svars, cvars, pvars>>

\* lines 24-86: one iteration
Iterate(d) ==
    /\ gpc = "loop"
    /\ i < n_samples
    /\ data' = Append(data, Sample(d))
    /\ i' = i + 1
    /\ UNCHANGED <<gpc, n_samples, results, pre, svars, cvars, pvars>>

\* an iteration whose draws are unconstrained (the stream is not followed)
GenIterFree ==
    /\ \E d \in FreeDraws : Iterate(d)
    /\ UNCHANGED rng

\* an iteration whose draws are the next DrawsPerIteration outputs of the stream
GenIterSeeded ==
    /\ Iterate(StreamDraws(rng))
    /\ rng' = AdvanceN(rng, DrawsPerIteration)

\* line 88
GenReturn ==
    /\ gpc = "loop"
    /\ i = n_samples
    /\ gpc' = "returned"
    /\ results' = Append(results, data)
    /\ UNCHANGED <<n_samples, i, data, rng, pre, svars, cvars, pvars>>

\* any other user of the process-wide stream, between calls of the generator
OtherDraw ==
    /\ gpc \in {"idle", "returned"}
    /\ Len(results) < MaxCalls
    /\ rng' = Advance(rng)
    /\ UNCHANGED <<gpc, n_samples, i, data, results, pre, svars, cvars, pvars>>

(***************************************************************************)
(* sklearn's train_test_split(X, y, test_size=0.2, random_state=42,        *)
(* stratify=y), called at lines 105-107.  The arithmetic is on class       *)
(* counts; the seeded shuffles are choices among the outcomes they allow.  *)
(***************************************************************************)
RECURSIVE Sum(_, _)
Sum(f, S) == IF S = {} THEN 0 ELSE LET c == CHOOSE c \in S : TRUE IN f[c] + Sum(f, S \ {c})

\* the classes present in a table of class counts
Classes(counts) == {c \in DOMAIN counts : counts[c] > 0}

Total(counts) == Sum(counts, DOMAIN counts)

\* fault variant: test_size = 0.25
NTestQuarter(n) == (n * 25 + 99) \div 100

\* n_test = ceil(test_size * n_samples) with test_size = 0.2
NTest(n) == (n * 20 + 99) \div 100

\* train_size is None: n_train = n_samples - n_test
NTrain(n) == n - NTest(n)

\* fault variant: no check of the least populated class
SplitRaisesNoClassCheck(counts) ==
    LET n == Total(counts)
        n_classes == Cardinality(Classes(counts))
    IN  \/ NTrain(n) = 0
        \/ NTrain(n) < n_classes
        \/ NTest(n) < n_classes

\* the ValueErrors of the stratified split: an empty train set, a class
\* with fewer than 2 members, fewer train or test rows than classes
SplitRaises(counts) ==
    LET n == Total(counts)
        n_classes == Cardinality(Classes(counts))
    IN  \/ NTrain(n) = 0
        \/ \E c \in Classes(counts) : counts[c] < 2
        \/ NTrain(n) < n_classes
        \/ NTest(n) < n_classes

\* _approximate_mode(class_counts, n_draws, rng): the proportional share of
\* each class rounded down, the remaining draws given to the classes with
\* the largest remainders, ties broken at random
ApproximateMode(counts, n_draws) ==
    LET Cs == Classes(counts)
        n == Total(counts)
        floored == [c \in Cs |-> (counts[c] * n_draws) \div n]
        rem == [c \in Cs |-> (counts[c] * n_draws) % n]
        need_to_add == n_draws - Sum(floored, Cs)
    IN  {[c \in DOMAIN counts |->
            IF c \in Cs THEN floored[c] + (IF c \in S THEN 1 ELSE 0) ELSE 0] :
         S \in {T \in SUBSET Cs :
                  /\ Cardinality(T) = need_to_add
                  /\ \A c \in T : \A d \in Cs \ T : rem[c] >= rem[d]}}

\* the per-class sizes <<n_i, t_i>> of the train and test parts:
\* n_i = _approximate_mode(class_counts, n_train),
\* t_i = _approximate_mode(class_counts - n_i, n_test)
Allocations(counts) ==
    LET n == Total(counts)
    IN  UNION {{<<n_i, t_i>> :
                  t_i \in ApproximateMode([c \in DOMAIN counts |-> counts[c] - n_i[c]], NTest(n))} :
               n_i \in ApproximateMode(counts, NTrain(n))}

(***************************************************************************)
(* create_ml_training_data, lines 90-116.  A DataFrame or Series is a      *)
(* function from index labels to rows or values; the order of the rows,    *)
(* which the split permutes, is not kept.  x stands for the eight feature  *)
(* columns of a row.                                                       *)
(***************************************************************************)
\* the missing value pandas fills in; it is no stage
NaN == -1

\* the class counts of a Series of labels
ClassCounts(y) == [c \in StageSet |-> Cardinality({k \in DOMAIN y : y[k] = c})]

\* the <<train, test>> index-label sets the split can return: the first
\* n_i[c] labels of a permutation of class c go to train, the next t_i[c] to test
SplitIndices(y) ==
    LET counts == ClassCounts(y)
        ofClass(c) == {k \in DOMAIN y : y[k] = c}
        Take(from, sizes) ==
            {T \in SUBSET from : \A c \in StageSet : Cardinality(T \cap ofClass(c)) = sizes[c]}
    IN  UNION {UNION {{<<tr, te>> : te \in Take(DOMAIN y \ tr, a[2])} :
                      tr \in Take(DOMAIN y, a[1])} :
               a \in Allocations(counts)}

Restrict(f, S) == [k \in S |-> f[k]]

\* fault variant: the frame is given the other part's labels
WithStageOfOther(X_part, y_part, y_other) ==
    [k \in DOMAIN X_part |->
        [x |-> X_part[k], stage |-> IF k \in DOMAIN y_other THEN y_other[k] ELSE NaN]]

\* lines 110-111 and 113-114: frame = X_part.copy(); frame['stage'] = y_part.
\* The assignment aligns on index labels; a label y_part lacks gets NaN.
WithStage(X_part, y_part, y_other) ==
    [k \in DOMAIN X_part |->
        [x |-> X_part[k], stage |-> IF k \in DOMAIN y_part THEN y_part[k] ELSE NaN]]

\* lines 102-116, the split succeeding
SplitReturn ==
    /\ spc = "ready"
    /\ LET X == [k \in DOMAIN df |-> df[k].x]
           y == [k \in DOMAIN df |-> df[k].stage]
       IN  /\ ~SplitRaises(ClassCounts(y))
           /\ \E s \in SplitIndices(y) :
                   LET X_train == Restrict(X, s[1])
                       X_test == Restrict(X, s[2])
                       y_train == Restrict(y, s[1])
                       y_test == Restrict(y, s[2])
                   IN  /\ train_df' = WithStage(X_train, y_train, y_test)
                       /\ test_df' = WithStage(X_test, y_test, y_train)
    /\ spc' = "returned"
    /\ UNCHANGED <<df, gvars, cvars, pvars>>

\* lines 105-107 raising: nothing is returned
SplitRaise ==
    /\ spc = "ready"
    /\ SplitRaises(ClassCounts([k \in DOMAIN df |-> df[k].stage]))
    /\ spc' = "raised"
    /\ UNCHANGED <<df, train_df, test_df, gvars, cvars, pvars>>

\* a dataset of n rows with the stages st, whose feature values are all
\* alike (m = 1) or alternate (m = 2)
Dataset(n, st, m) == [k \in 1..n |-> [x |-> k % m, stage |-> st[k]]]

SplitInit ==
    /\ \E n \in 0..MaxRows : \E st \in [1..n -> StageSet] : \E m \in 1..2 :
         df = Dataset(n, st, m)
    /\ spc = "ready"
    /\ train_df = None
    /\ test_df = None

SplitNext == SplitReturn \/ SplitRaise

(***************************************************************************)
(* create_model_metadata, lines 161-208.  A mapping is a function from a   *)
(* set of keys; metric values are in hundredths.  The identity fields and  *)
(* the feature schema are constants of the source and are not modelled.    *)
(***************************************************************************)
\* the outcome of a call that raised KeyError
KeyError == [error |-> "KeyError"]

\* evaluation_metrics[key] raises KeyError for a key the mapping lacks
RequiredKeys == {"accuracy", "precision", "recall"}

\* evaluation_metrics.get(key, default)
Get(m, key, default) == IF key \in DOMAIN m THEN m[key] ELSE default

\* fault variant: f1 indexed like the other three metrics
CreateModelMetadataF1Required(m) ==
    IF ~(RequiredKeys \cup {"f1"} \subseteq DOMAIN m) THEN KeyError
    ELSE [training_samples   |-> 8000,
          validation_samples |-> 2000,
          accuracy  |-> m["accuracy"],
          precision |-> m["precision"],
          recall    |-> m["recall"],
          f1_score  |-> m["f1"]]

CreateModelMetadata(m) ==
    IF ~(RequiredKeys \subseteq DOMAIN m) THEN KeyError
    ELSE [training_samples   |-> 8000,
          validation_samples |-> 2000,
          accuracy  |-> m["accuracy"],
          precision |-> m["precision"],
          recall    |-> m["recall"],
          f1_score  |-> Get(m, "f1", 0)]

\* the call returning its record
ComposeReturn ==
    /\ mpc = "ready"
    /\ CreateModelMetadata(evaluation_metrics) # KeyError
    /\ metadata_out' = CreateModelMetadata(evaluation_metrics)
    /\ mpc' = "returned"
    /\ UNCHANGED <<evaluation_metrics, gvars, svars, pvars>>

\* the call raising KeyError
ComposeRaise ==
    /\ mpc = "ready"
    /\ CreateModelMetadata(evaluation_metrics) = KeyError
    /\ mpc' = "raised"
    /\ UNCHANGED <<evaluation_metrics, metadata_out, gvars, svars, pvars>>

\* keys a caller may supply: the four the trainer documents and the name
\* the metadata gives the fourth
MetricKeys == {"accuracy", "precision", "recall", "f1", "f1_score"}

Mappings(values) == UNION {[K -> values] : K \in SUBSET MetricKeys}

MetaInit ==
    /\ evaluation_metrics \in Mappings({0, 91})
    /\ mpc = "ready"
    /\ metadata_out = None

MetaNext == ComposeReturn \/ ComposeRaise

(***************************************************************************)
(* main, lines 210-247, with train_core_ml_model, lines 118-159, inlined.  *)
(* A table is kept as its number of rows per stage.  Calls into the        *)
(* operating system and the trainer library either return or raise; an     *)
(* exception reaches the top of main uncaught (there is no try block).     *)
(***************************************************************************)
N_SAMPLES == 10000

\* fault variant: the model saved after the metadata is composed
FollowingPersistLast(step) ==
    CASE step = "makedirs" -> "generate"
      [] step = "generate" -> "split"
      [] step = "split"    -> "train"
      [] step = "train"    -> "evaluate"
      [] step = "evaluate" -> "compose"
      [] step = "compose"  -> "save"
      [] step = "save"     -> "write"
      [] step = "write"    -> "done"

\* fault variant: the metadata file written before the model is saved
FollowingMetadataFirst(step) ==
    CASE step = "makedirs" -> "generate"
      [] step = "generate" -> "split"
      [] step = "split"    -> "train"
      [] step = "train"    -> "evaluate"
      [] step = "evaluate" -> "compose"
      [] step = "compose"  -> "write"
      [] step = "write"    -> "save"
      [] step = "save"     -> "done"

\* the order of the statements of main and of train_core_ml_model:
\* makedirs (218), generate (222), split (226), train (140-147),
\* evaluate (150-153), save (156), compose (233), write (236-237)
Following(step) ==
    CASE step = "makedirs" -> "generate"
      [] step = "generate" -> "split"
      [] step = "split"    -> "train"
      [] step = "train"    -> "evaluate"
      [] step = "evaluate" -> "save"
      [] step = "save"     -> "compose"
      [] step = "compose"  -> "write"
      [] step = "write"    -> "done"

\* the step returns: control moves to the statement that follows
Returns(step) ==
    /\ pc' = Following(step)
    /\ steps' = Append(steps, step)
    /\ UNCHANGED failed

\* the step raises: the exception ends the run
Raises(step) ==
    /\ pc' = "error"
    /\ steps' = Append(steps, step)
    /\ failed' = step

\* line 218: os.makedirs(output_dir, exist_ok=True)
Makedirs ==
    /\ pc = "makedirs"
    /\ Returns("makedirs") \/ Raises("makedirs")
    /\ UNCHANGED <<sleep_data, train_data, test_data, evaluation, metadata,
                   model_file, metadata_file, gvars, svars, cvars>>

\* line 222: sleep_data = generate_synthetic_sleep_data(n_samples=10000).
\* The table has N_SAMPLES rows; one stage holds the bulk of them and each
\* other stage at most MaxRare.
Generate ==
    /\ pc = "generate"
    /\ \E bulk \in StageSet : \E rare \in [StageSet \ {bulk} -> 0..MaxRare] :
         sleep_data' = [c \in StageSet |->
                          IF c = bulk THEN N_SAMPLES - Sum(rare, DOMAIN rare) ELSE rare[c]]
    /\ Returns("generate")
    /\ UNCHANGED <<train_data, test_data, evaluation, metadata,
                   model_file, metadata_file, gvars, svars, cvars>>

\* line 226: train_data, test_data = create_ml_training_data(sleep_data)
Split ==
    /\ pc = "split"
    /\ IF SplitRaises(sleep_data)
       THEN /\ Raises("split")
            /\ UNCHANGED <<train_data, test_data>>
       ELSE /\ \E a \in Allocations(sleep_data) :
                 /\ train_data' = a[1]
                 /\ test_data' = a[2]
            /\ Returns("split")
    /\ UNCHANGED <<sleep_data, evaluation, metadata,
                   model_file, metadata_file, gvars, svars, cvars>>

\* lines 140-150: the trainer raises, or returns a model whose
\* evaluation_metrics is some mapping
Train ==
    /\ pc = "train"
    /\ \/ /\ Raises("train")
          /\ UNCHANGED evaluation
       \/ /\ evaluation' \in Mappings({91})
          /\ Returns("train")
    /\ UNCHANGED <<sleep_data, train_data, test_data, metadata,
                   model_file, metadata_file, gvars, svars, cvars>>

\* lines 151-153: the prints index accuracy, precision and recall
Evaluate ==
    /\ pc = "evaluate"
    /\ IF RequiredKeys \subseteq DOMAIN evaluation
       THEN Returns("evaluate")
       ELSE Raises("evaluate")
    /\ UNCHANGED <<sleep_data, train_data, test_data, evaluation, metadata,
                   model_file, metadata_file, gvars, svars, cvars>>

\* line 156: model.save(output_path)
Save ==
    /\ pc = "save"
    /\ \/ /\ Raises("save")
          /\ UNCHANGED model_file
       \/ /\ model_file' = TRUE
          /\ Returns("save")
    /\ UNCHANGED <<sleep_data, train_data, test_data, evaluation, metadata,
                   metadata_file, gvars, svars, cvars>>

\* line 233: metadata = create_model_metadata(evaluation)
Compose ==
    /\ pc = "compose"
    /\ IF CreateModelMetadata(evaluation) = KeyError
       THEN /\ Raises("compose")
            /\ UNCHANGED metadata
       ELSE /\ metadata' = CreateModelMetadata(evaluation)
            /\ Returns("compose")
    /\ UNCHANGED <<sleep_data, train_data, test_data, evaluation,
                   model_file, metadata_file, gvars, svars, cvars>>

\* lines 236-237: open(metadata_path, 'w') raises and leaves no file, or
\* json.dump raises and leaves a truncated file, or the file is written
Write ==
    /\ pc = "write"
    /\ \/ /\ Raises("write")
          /\ metadata_file' \in {"absent", "partial"}
       \/ /\ metadata_file' = "complete"
          /\ Returns("write")
    /\ UNCHANGED <<sleep_data, train_data, test_data, evaluation, metadata,
                   model_file, gvars, svars, cvars>>

MainInit ==
    /\ pc = "makedirs"
    /\ failed = NoStep
    /\ steps = <<>>
    /\ sleep_data = None
    /\ train_data = None
    /\ test_data = None
    /\ evaluation = None
    /\ metadata = None
    /\ model_file = FALSE
    /\ metadata_file = "absent"

MainNext ==
    \/ Makedirs
    \/ Generate
    \/ Split
    \/ Train
    \/ Evaluate
    \/ Save
    \/ Compose
    \/ Write

GenInit(streams) ==
    /\ gpc = "idle"
    /\ n_samples = 0
    /\ i = 0
    /\ data = <<>>
    /\ rng \in streams
    /\ results = <<>>
    /\ pre = <<>>

SplitIdle ==
    /\ df = <<>>
    /\ spc = "idle"
    /\ train_df = None
    /\ test_df = None

MetaIdle ==
    /\ evaluation_metrics = None
    /\ mpc = "idle"
    /\ metadata_out = None

MainIdle ==
    /\ pc = "idle"
    /\ failed = NoStep
    /\ steps = <<>>
    /\ sleep_data = None
    /\ train_data = None
    /\ test_data = None
    /\ evaluation = None
    /\ metadata = None
    /\ model_file = FALSE
    /\ metadata_file = "absent"

\* the generator called once, with unconstrained draws
GenNext ==
    \/ \E n \in 0..MaxSamples : GenCall(n, 1)
    \/ GenIterFree
    \/ GenReturn

InitGen == GenInit({0}) /\ SplitIdle /\ MetaIdle /\ MainIdle

SpecGen == InitGen /\ [][GenNext]_vars

\* the generator called repeatedly, its draws taken from the stream
DetNext ==
    \/ \E n \in 0..MaxSamplesDet : GenCall(n, MaxCalls)
    \/ GenIterSeeded
    \/ GenReturn
    \/ OtherDraw

SpecDet == InitGen /\ [][DetNext]_vars

\* create_ml_training_data called on an arbitrary small dataset
InitSplit == GenInit({0}) /\ SplitInit /\ MetaIdle /\ MainIdle

SpecSplit == InitSplit /\ [][SplitNext]_vars
\* create_model_metadata called on an arbitrary mapping
InitMeta == GenInit({0}) /\ SplitIdle /\ MetaInit /\ MainIdle

SpecMeta == InitMeta /\ [][MetaNext]_vars
\* one run of main
InitMain == GenInit({0}) /\ SplitIdle /\ MetaIdle /\ MainInit

SpecMain == InitMain /\ [][MainNext]_vars

(***************************************************************************)
(* Properties                                                              *)
(***************************************************************************)
\* every sample generated so far: the rows of the list being built and of the returned tables
Generated == {data[k] : k \in DOMAIN data} \cup UNION {{results[c][k] : k \in DOMAIN results[c]} : c \in DOMAIN results}

InRange(v, lo, hi) == lo <= v /\ v <= hi

\* C1: every generated sample has every continuous field inside its clamp
\* range: heartRate in [40,100], hrv in [10,80], movement in [0,1],
\* bloodOxygen in [90,100], temperature in [35.5,37.5], breathingRate in [8,25].
C1_AllFieldsClamped ==
    \A s \in Generated :
        /\ InRange(s.heartRate, 4000, 10000)
        /\ InRange(s.hrv, 1000, 8000)
        /\ InRange(s.movement, 0, 100)
        /\ InRange(s.bloodOxygen, 9000, 10000)
        /\ InRange(s.temperature, 3550, 3750)
        /\ InRange(s.breathingRate, 800, 2500)

\* C8: every generated sample has timeOfNight in [0,8) and a stage of the
\* bucket its timeOfNight selects: [0,1) Awake or Light, [1,3) Light or Deep,
\* [3,5) Light or REM, [5,8) any stage; 1, 3 and 5 belong to the later bucket.
C8_StageFollowsPhase ==
    \A s \in Generated :
        /\ 0 <= s.timeOfNight /\ s.timeOfNight < 800
        /\ s.timeOfNight < 100 => s.stage \in {0, 1}
        /\ (100 <= s.timeOfNight /\ s.timeOfNight < 300) => s.stage \in {1, 2}
        /\ (300 <= s.timeOfNight /\ s.timeOfNight < 500) => s.stage \in {1, 3}
        /\ 500 <= s.timeOfNight => s.stage \in {0, 1, 2, 3}

\* a returned sample exactly on the threshold 1.0 with the stage Deep, which
\* only the later bucket offers
C8_Witness ==
    \E c \in DOMAIN results : \E k \in DOMAIN results[c] :
        results[c][k].timeOfNight = 100 /\ results[c][k].stage = 2

\* C9: every generated sample has previousStage equal to (stage - 1) mod 4 or
\* to stage, always within 0..3; stage Awake gives previousStage REM or Awake.
C9_PreviousStageWraps ==
    \A s \in Generated :
        /\ s.previousStage \in {IF s.stage = 0 THEN 3 ELSE s.stage - 1, s.stage}
        /\ s.previousStage \in 0..3
        /\ s.stage = 0 => s.previousStage \in {3, 0}

\* a returned Awake sample whose previousStage wrapped around to REM
C9_Witness ==
    \E c \in DOMAIN results : \E k \in DOMAIN results[c] :
        results[c][k].stage = 0 /\ results[c][k].previousStage = 3

\* C6: any two calls of the generator agree, field by field, on the sample
\* at every index both results have, whatever the stream's state before each
\* call and whatever n_samples each was given.
C6_SameSampleAtSameIndex ==
    \A a \in DOMAIN results : \A b \in DOMAIN results :
        \A k \in DOMAIN results[a] \cap DOMAIN results[b] :
            results[a][k] = results[b][k]

\* two calls made from different stream states with different n_samples,
\* sharing an index, the longer result holding two different samples
C6_Witness ==
    /\ Len(results) >= 2
    /\ pre[1] # pre[2]
    /\ Len(results[1]) >= 2
    /\ Len(results[2]) >= 1
    /\ Len(results[1]) # Len(results[2])
    /\ results[1][1] # results[1][2]

\* the number of rows of a table (index label -> row) that equal r
RowCount(t, r) == Cardinality({k \in DOMAIN t : t[k] = r})

SourceRow(k) == [x |-> df[k].x, stage |-> df[k].stage]

\* C4: when create_ml_training_data returns, no source row is in both
\* tables, every source row is in one of them, every returned row has the
\* features and the label of its source row, and the multiset union of the
\* two tables is the input dataset.
C4_SplitIsPartition ==
    spc = "returned" =>
        /\ DOMAIN train_df \cap DOMAIN test_df = {}
        /\ DOMAIN train_df \cup DOMAIN test_df = DOMAIN df
        /\ \A k \in DOMAIN train_df : train_df[k] = SourceRow(k)
        /\ \A k \in DOMAIN test_df : test_df[k] = SourceRow(k)
        /\ \A k \in DOMAIN df :
             RowCount(train_df, SourceRow(k)) + RowCount(test_df, SourceRow(k))
                 = Cardinality({j \in DOMAIN df : SourceRow(j) = SourceRow(k)})

\* a split of a two-class dataset with equal rows, both tables holding both classes
C4_Witness ==
    /\ spc = "returned"
    /\ \E j \in DOMAIN df : \E k \in DOMAIN df : j # k /\ df[j] = df[k]
    /\ \E j \in DOMAIN train_df : \E k \in DOMAIN train_df : train_df[j].stage # train_df[k].stage
    /\ \E j \in DOMAIN test_df : \E k \in DOMAIN test_df : test_df[j].stage # test_df[k].stage

Ran(step) == \E k \in DOMAIN steps : steps[k] = step

\* step a ran before step b, if b ran at all
Before(a, b) ==
    \A k \in DOMAIN steps : steps[k] = b => \E j \in 1..(k - 1) : steps[j] = a

Ended == pc \in {"done", "error"}

\* C2: a run of main ends with both the model artifact and the metadata
\* file written, or with neither.
C2_BothOrNeither ==
    Ended => \/ model_file /\ metadata_file = "complete"
             \/ ~model_file /\ metadata_file = "absent"

\* C2 as amended: a run that ends without error has written both; a run
\* that fails in any step up to and including the model save has written
\* neither; a run that fails in metadata composition or in the metadata file
\* write has written the model artifact and no complete metadata file.  A
\* complete metadata file is never left without the model artifact.
C2_ModelBeforeMetadata ==
    Ended =>
        /\ failed = NoStep => model_file /\ metadata_file = "complete"
        /\ failed \in {"makedirs", "generate", "split", "train", "evaluate", "save"}
              => ~model_file /\ metadata_file = "absent"
        /\ failed \in {"compose", "write"} => model_file /\ metadata_file # "complete"
        /\ metadata_file = "complete" => model_file

\* the metadata file write failed after the model artifact was saved
C2_Witness == pc = "error" /\ failed = "write" /\ model_file /\ metadata_file = "partial"

\* C3: create_model_metadata never fails; each of accuracy, precision,
\* recall and f1_score is the supplied value when the mapping has the metric
\* and 0.0 when it does not.
C3_AllMetricsDefault ==
    mpc # "ready" =>
        /\ mpc = "returned"
        /\ metadata_out.accuracy = Get(evaluation_metrics, "accuracy", 0)
        /\ metadata_out.precision = Get(evaluation_metrics, "precision", 0)
        /\ metadata_out.recall = Get(evaluation_metrics, "recall", 0)
        /\ metadata_out.f1_score = Get(evaluation_metrics, "f1", 0)

\* C3 as amended: the call returns exactly when the mapping has accuracy,
\* precision and recall, and raises KeyError otherwise; the record returned
\* has those three as supplied, and f1_score is the value under the key f1
\* when the mapping has that key and 0.0 when it does not.
C3_OnlyF1Defaults ==
    /\ mpc = "returned" =>
        /\ {"accuracy", "precision", "recall"} \subseteq DOMAIN evaluation_metrics
        /\ metadata_out.accuracy = evaluation_metrics["accuracy"]
        /\ metadata_out.precision = evaluation_metrics["precision"]
        /\ metadata_out.recall = evaluation_metrics["recall"]
        /\ "f1" \in DOMAIN evaluation_metrics => metadata_out.f1_score = evaluation_metrics["f1"]
        /\ "f1" \notin DOMAIN evaluation_metrics => metadata_out.f1_score = 0
    /\ mpc = "raised" =>
        /\ ~({"accuracy", "precision", "recall"} \subseteq DOMAIN evaluation_metrics)
        /\ metadata_out = None

\* a record composed from a mapping without f1: f1_score is 0.0 next to a supplied accuracy
C3_Witness ==
    /\ mpc = "returned"
    /\ "f1" \notin DOMAIN evaluation_metrics
    /\ metadata_out.f1_score = 0
    /\ metadata_out.accuracy = 91

\* C5: when the dataset given to the split has a stage with exactly one
\* row, the split raises and returns no table, the trainer is never called
\* and no artifact is written.
C5_SingletonClassStopsRun ==
    (Ran("split") /\ \E c \in StageSet : sleep_data[c] = 1) =>
        /\ pc = "error"
        /\ failed = "split"
        /\ train_data = None
        /\ test_data = None
        /\ ~Ran("train")
        /\ ~model_file
        /\ metadata_file = "absent"

\* the split was given a dataset with a one-row stage, every other stage having no row or several
C5_Witness ==
    /\ Ran("split")
    /\ \E c \in StageSet : sleep_data[c] = 1 /\ \A d \in StageSet \ {c} : sleep_data[d] # 1

\* C7: the steps of main run in the order generation, split, train,
\* compose-metadata, persist: both the model artifact write and the metadata
\* file write happen only after metadata composition.
C7_PersistAfterCompose ==
    /\ Before("generate", "split")
    /\ Before("split", "train")
    /\ Before("train", "compose")
    /\ Before("compose", "save")
    /\ Before("compose", "write")

\* C7 as amended: the steps run in the order generation, split, trainer
\* call, model artifact write, metadata composition, metadata file write:
\* the model artifact is written before the metadata is composed.
C7_ModelSavedBeforeCompose ==
    /\ Before("generate", "split")
    /\ Before("split", "train")
    /\ Before("train", "save")
    /\ Before("save", "compose")
    /\ Before("compose", "write")

\* a run that went through every step
C7_Witness == pc = "done" /\ Ran("save") /\ Ran("compose") /\ Ran("write")

\* C10: once the trainer has been called, the train table has 8000 rows and
\* the test table 2000, and the training_samples and validation_samples of
\* the composed metadata are those sizes.
C10_SplitSizesMatchMetadata ==
    Ran("train") =>
        /\ Total(train_data) = 8000
        /\ Total(test_data) = 2000
        /\ Ran("compose") /\ failed # "compose" =>
              /\ metadata.training_samples = Total(train_data)
              /\ metadata.validation_samples = Total(test_data)

\* the metadata of a run whose tables both hold several stages reached the file
C10_Witness ==
    /\ metadata_file = "complete"
    /\ Cardinality(Classes(train_data)) >= 2
    /\ Cardinality(Classes(test_data)) >= 2
====
